---------------------------- MODULE Spec2Model ----------------------------
(***************************************************************************)
(* Model of the epub text extraction of smashwords-downloader:             *)
(*   cmd/smashwords-downloader/epubParse.go  ParseText, Parser, Cellbuf    *)
(*   cmd/smashwords-downloader/main.go       ConvertEpubGo                 *)
(*                                                                         *)
(* Strings are sequences of one-character strings.  A token is a record    *)
(* [type, atom, attr, data, err] as html.Tokenizer delivers it.  The cell  *)
(* slice c.cells is kept as its length n and the cells that were written;  *)
(* every other cell below n is the zero termbox.Cell.                      *)
(***************************************************************************)
EXTENDS Integers, Sequences, FiniteSets, TLC

(***************************************************************************)
(* Bounds of the model.                                                    *)
(***************************************************************************)
MaxTokens == 3
NumEpubs == 2
NumSections == 2

(***************************************************************************)
(* Program constants.                                                      *)
(***************************************************************************)
Width == 80
Chunk == 1024

Nil == "nil"
EOF == "io.EOF"
ErrUnexpected == "unexpected error"

WhiteSpace == {" ", "\t", "\n"}

\* "Alt text: " of fmt.Sprintf("Alt text: %s", a.Val)
AltPrefix == <<"A", "l", "t", " ", "t", "e", "x", "t", ":", " ">>

\* strings.Repeat(s, n) for a one-character s
Repeat(ch, n) == [i \in 1..n |-> ch]

(***************************************************************************)
(* The inputs: the tokens the tokenizer may deliver.                       *)
(***************************************************************************)
TxtHello == <<"H", "e", "l", "l", "o", " ", "w", "o", "r", "l", "d">>
TxtTab == <<"\t", "a", "\t">>
TxtLong == Repeat("x", Width + 1)
TxtNear == Repeat("y", Width - 1)
AltCat == <<"A", " ", "c", "a", "t">>

Tok(type, a, attr, data, e) ==
    [type |-> type, atom |-> a, attr |-> attr, data |-> data, err |-> e]

StartTag(a, attr) == Tok("StartTag", a, attr, <<>>, Nil)
SelfClosingTag(a, attr) == Tok("SelfClosingTag", a, attr, <<>>, Nil)
EndTag(a) == Tok("EndTag", a, <<>>, <<>>, Nil)
TextTok(data) == Tok("Text", "", <<>>, data, Nil)
ErrorTok(e) == Tok("Error", "", <<>>, <<>>, e)

AltAttr == <<[Key |-> "alt", Val |-> AltCat]>>
SrcAltAttr == <<[Key |-> "src", Val |-> <<"c", ".", "p", "n", "g">>],
                [Key |-> "alt", Val |-> AltCat]>>

StartTokens ==
    {StartTag("p", <<>>), StartTag("style", <<>>), StartTag("img", AltAttr)}

SelfClosingTokens ==
    {SelfClosingTag("br", <<>>), SelfClosingTag("hr", <<>>),
     SelfClosingTag("img", SrcAltAttr), SelfClosingTag("p", <<>>)}

EndTokens == {EndTag("p")}

TextTokens == {TextTok(TxtHello), TextTok(TxtLong), TextTok(TxtNear)}

ErrorTokens == {ErrorTok(EOF), ErrorTok(ErrUnexpected)}

\* the tokens of the sections on which the styles are examined
TxtBlank == <<" ">>

StyleStartTokens ==
    {StartTag("style", <<>>), StartTag("script", <<>>), StartTag("h1", <<>>),
     StartTag("b", <<>>)}
StyleSelfClosingTokens == {SelfClosingTag("img", AltAttr)}
StyleTextTokens == {TextTok(TxtHello), TextTok(TxtBlank)}

\* the tokens of the sections on which the layout of elements is examined
LayoutStartAtoms == {"br", "tr", "div", "h1", "h2", "h3"}
LayoutSelfClosingAtoms == {"br", "tr", "h4", "h5", "h6"}
PngHref == <<"c", ".", "p", "n", "g">>
SrcAttr == <<[Key |-> "src", Val |-> PngHref]>>
SrcOtherAttr == <<[Key |-> "src", Val |-> <<"x">>]>>

LayoutStartTokens ==
    {StartTag(a, <<>>) : a \in LayoutStartAtoms}
       \cup {StartTag("img", SrcAttr)}
LayoutSelfClosingTokens ==
    {SelfClosingTag(a, <<>>) : a \in LayoutSelfClosingAtoms}
       \cup {SelfClosingTag("hr", <<>>), SelfClosingTag("img", <<>>),
             SelfClosingTag("img", SrcOtherAttr)}
LayoutTextTokens == {TextTok(TxtHello)}

\* book.Manifest.Items
Manifest == <<[HREF |-> PngHref]>>

\* the tokens of the sections on which the growth of the grid is examined
GrowStartTokens == {StartTag("div", <<>>)}
GrowSelfClosingTokens == {SelfClosingTag("br", <<>>)}
GrowTextTokens == {TextTok(TxtHello)}
GrowErrorTokens == {ErrorTok(EOF)}

\* the tokens of the sections ConvertEpubGo reads
ConvStartTokens == {StartTag("p", <<>>)}
ConvSelfClosingTokens == {SelfClosingTag("br", <<>>)}
ConvEndTokens == {EndTag("p")}
ConvTextTokens == {TextTok(TxtTab)}

\* os.ReadDir(inputdir): a file that is no epub, then the epub files
Listing ==
    <<[base |-> 0, ext |-> "txt"]>> \o [i \in 1..NumEpubs |-> [base |-> i, ext |-> "epub"]]

(***************************************************************************)
(* State.                                                                  *)
(*   pc        where the ParseText call is: "run" in the loop of Parse,    *)
(*             "returned" after ParseText returned, "panic" after a run    *)
(*             time panic unwound it, "idle" when there is no call         *)
(*   tagStack  Parser.tagStack                                             *)
(*   doc       Parser.doc, the Cellbuf                                     *)
(*   sb        Parser.sb                                                   *)
(*   ret       what ParseText returned: [sb, err]                          *)
(*   streamLen the number of tokens the section holds before its end       *)
(*   seen      history: the tokens the tokenizer delivered so far          *)
(*   log       history: strings handed to AppendText, words placed, cell   *)
(*             writes of SetCell                                           *)
(***************************************************************************)
VARIABLES pc, tagStack, doc, sb, ret, seen, log, streamLen

(***************************************************************************)
(* State of ConvertEpubGo.                                                 *)
(*   cpc        where ConvertEpubGo is: "off" not called, "file" at the    *)
(*              top of the loop over files, "section" at the top of the    *)
(*              loop over book.Spine.Itemrefs, "parsing" inside ParseText, *)
(*              "exit" the process ended (log.Fatal, panic), "done"        *)
(*              ConvertEpubGo returned                                     *)
(*   overwriteSource  the parameter                                        *)
(*   fileIdx    index of file in files                                     *)
(*   itemIdx    index of itemref in book.Spine.Itemrefs                    *)
(*   csb        the strings.Builder sb of ConvertEpubGo                    *)
(*   epubs      the .epub files of inputdir that exist                     *)
(*   txt        the .txt files of inputdir that exist, with their content  *)
(*   charCount  the counter                                                *)
(***************************************************************************)
(*   checked    history: for each epub file the loop came to, its name and *)
(*              what CheckRateLimit found in it                            *)
(*   written    history: for each section of the current epub whose        *)
(*              chapter was written so far, the text that ParseText        *)
(*              extracts from the tokens of that section                   *)
VARIABLES cpc, overwriteSource, fileIdx, itemIdx, csb, epubs, txt, charCount,
          written, checked

(***************************************************************************)
(* State of several calls of ParseText under way at once.                  *)
(*   par        for each call its Parser (pc, tagStack, doc, sb, ret) and  *)
(*              the history seen, log of that call                          *)
(*   heap       the backing arrays the strings.Builders have allocated     *)
(***************************************************************************)
VARIABLES par, heap

(***************************************************************************)
(* State of main, of its scrapeBookList tasks and of downloadBook.         *)
(*   mpc        where main is: "off" not started, "loop" in the loop that  *)
(*              starts the tasks, "wait" in wg.Wait(), "convert" at the    *)
(*              test of the format, "done" returned                        *)
(*   flags      the values of -pageitems, -pages and -format               *)
(*   loopI      the loop variable i of main                                *)
(*   tasks      the goroutines started so far, in order: the pageId each   *)
(*              received and whether its scrapeBookList has returned       *)
(*   wg         the counter of the sync.WaitGroup                          *)
(*   dataDir    the files of the data directory: name -> content           *)
(*   requests   history: the book links fetched by client.Get              *)
(*   dlog       history: one entry per call of downloadBook, its           *)
(*              arguments and the message it logged                        *)
(***************************************************************************)
VARIABLES mpc, flags, loopI, tasks, wg, dataDir, requests, dlog

pvars == <<pc, tagStack, doc, sb, ret, seen, log, streamLen>>
cvars == <<cpc, overwriteSource, fileIdx, itemIdx, csb, epubs, txt, charCount,
           written, checked>>
qvars == <<par, heap>>
mvars == <<mpc, flags, loopI, tasks, wg>>
dvars == <<dataDir, requests, dlog>>
vars == <<pc, tagStack, doc, sb, ret, seen, log, streamLen,
          cpc, overwriteSource, fileIdx, itemIdx, csb, epubs, txt, charCount,
          written, checked, par, heap,
          mpc, flags, loopI, tasks, wg, dataDir, requests, dlog>>

NoFlags == [pageitems |-> 0, pages |-> 0, format |-> ""]

\* main is not running and nothing was downloaded
MainOff ==
    /\ mpc = "off"
    /\ flags = NoFlags
    /\ loopI = 0
    /\ tasks = <<>>
    /\ wg = 0
    /\ dataDir = <<>>
    /\ requests = <<>>
    /\ dlog = <<>>

NoRet == [sb |-> <<>>, err |-> "none"]

ZeroCell == [Ch |-> "", Fg |-> 0, Bg |-> 0]

\* doc := Cellbuf{width: 80}
NewCellbuf ==
    [cells |-> [n |-> 0, at |-> <<>>], width |-> Width, lmargin |-> 0,
     col |-> 0, row |-> 0, space |-> FALSE, fg |-> 0, bg |-> 0]

NewLog == [appended |-> <<>>, placed |-> <<>>, writes |-> <<>>]

(***************************************************************************)
(* termbox attributes and the bitwise or of Go's |= on them.               *)
(***************************************************************************)
Attr ==
    [ColorDefault |-> 0, ColorRed |-> 2, ColorYellow |-> 4, ColorBlue |-> 5,
     ColorMagenta |-> 6, ColorCyan |-> 7, AttrBold |-> 512]

RECURSIVE BitOr(_, _)
BitOr(a, b) ==
    IF a = 0 THEN b
    ELSE IF b = 0 THEN a
    ELSE (IF (a % 2 = 1) \/ (b % 2 = 1) THEN 1 ELSE 0)
         + 2 * BitOr(a \div 2, b \div 2)

StyleOf(tag) ==
    CASE tag \in {"b", "strong", "em"} -> Attr.AttrBold
      [] tag = "i" -> Attr.ColorYellow
      [] tag = "title" -> Attr.ColorRed
      [] tag = "h1" -> Attr.ColorMagenta
      [] tag = "h2" -> Attr.ColorBlue
      [] tag \in {"h3", "h4", "h5", "h6"} -> Attr.ColorCyan
      [] OTHER -> 0

RECURSIVE StyleFold(_, _, _)
StyleFold(tags, i, fg) ==
    IF i > Len(tags) THEN fg
    ELSE StyleFold(tags, i + 1, BitOr(fg, StyleOf(tags[i])))

\* a Style that adds to the attribute stored by the previous call
StyleFromStored(d, tags) == [d EXCEPT !.fg = StyleFold(tags, 1, d.fg)]

\* func (c *Cellbuf) Style(tags []atom.Atom)
Style(d, tags) == [d EXCEPT !.fg = StyleFold(tags, 1, Attr.ColorDefault)]

(***************************************************************************)
(* Cellbuf.SetCell and Cellbuf.AppendText.  They work on a pair            *)
(* [doc, log]: the Cellbuf and the history of what was done to it.         *)
(***************************************************************************)
\* a grid that grows by one step at most
GrowOnce(n, idx) == IF idx >= n THEN n + Chunk ELSE n

\* for y*c.width+x >= len(c.cells) { c.cells = append(c.cells, make(..., 1024)...) }
RECURSIVE Grow(_, _)
Grow(n, idx) == IF idx >= n THEN Grow(n + Chunk, idx) ELSE n

\* func (c *Cellbuf) SetCell(x, y int, ch rune, fg, bg termbox.Attribute)
\* on the cell slice alone: grow in steps of 1024, then store the cell
SetCell(cells, width, x, y, ch, fg, bg) ==
    LET idx == y * width + x
        cell == [Ch |-> ch, Fg |-> fg, Bg |-> bg]
    IN [n |-> Grow(cells.n, idx),
        at |-> [i \in (DOMAIN cells.at) \cup {idx} |->
                   IF i = idx THEN cell ELSE cells.at[i]]]

\* bufio.ScanWords: the maximal runs of non-space characters, in order
WordStarts(str) ==
    {i \in 1..Len(str) :
        str[i] \notin WhiteSpace /\ (i = 1 \/ str[i - 1] \in WhiteSpace)}

WordEnd(str, i) ==
    CHOOSE j \in i..Len(str) :
        /\ \A k \in i..j : str[k] \notin WhiteSpace
        /\ j = Len(str) \/ str[j + 1] \in WhiteSpace

ScanWords(str) ==
    LET starts == WordStarts(str)
        nth(k) == CHOOSE i \in starts : Cardinality({j \in starts : j < i}) = k - 1
    IN [k \in 1..Cardinality(starts) |-> SubSeq(str, nth(k), WordEnd(str, nth(k)))]

\* for _, r := range word { c.SetCell(c.col, c.row, r, c.fg, c.bg); c.col++ }
\* on the pair [cells, writes]: the cell slice and the history of the calls
\* of SetCell (arguments, flat index, length of the slice at the store, the
\* number k of the word).  The i-th rune goes to column d.col+i-1 of row
\* d.row.  (The test on c2 and w2 is always true; it makes the evaluation
\* proceed turn by turn.)
RECURSIVE SetCells(_, _, _, _, _)
SetCells(cw, d, word, i, k) ==
    IF i > Len(word) THEN cw
    ELSE LET x == d.col + i - 1
             c2 == SetCell(cw.cells, d.width, x, d.row, word[i], d.fg, d.bg)
             w2 == Append(cw.writes,
                          [x |-> x, y |-> d.row, idx |-> d.row * d.width + x,
                           cap |-> c2.n, fg |-> d.fg, k |-> k])
         IN IF c2.n > 0 /\ Len(w2) > 0
            THEN SetCells([cells |-> c2, writes |-> w2], d, word, i + 1, k)
            ELSE cw

WriteRunes(s, word) ==
    LET cw == SetCells([cells |-> s.doc.cells, writes |-> s.log.writes],
                       s.doc, word, 1, Len(s.log.placed))
    IN [doc |-> [s.doc EXCEPT !.cells = cw.cells, !.col = @ + Len(word)],
        log |-> [s.log EXCEPT !.writes = cw.writes]]

\* the separator test of the scan loop: c.col != c.lmargin && c.space
SpaceOwed(d) == d.col # d.lmargin /\ d.space

\* wrap tests that are off by one, or that look at the width alone
MustWrapOffByOne(d, word) == Len(word) > d.width - d.col + 1
MustWrapWidthOnly(d, word) == Len(word) > d.width

\* a wrap test that also wraps the word that fills the row exactly
MustWrapWhenFull(d, word) == Len(word) >= d.width - d.col

\* the wrap test of the scan loop: len(word) > c.width-c.col
MustWrap(d, word) == Len(word) > d.width - d.col

\* one turn of the scan loop of AppendText
PlaceWord(s, word, call) ==
    LET s1 == IF SpaceOwed(s.doc) THEN [s EXCEPT !.doc.col = @ + 1] ELSE s
        s2 == IF MustWrap(s1.doc, word)
              THEN [s1 EXCEPT !.doc.row = @ + 1, !.doc.col = s1.doc.lmargin]
              ELSE s1
        s3 == [s2 EXCEPT !.log.placed =
                  Append(@, [row |-> s2.doc.row, col |-> s2.doc.col,
                             word |-> word, call |-> call])]
    IN WriteRunes(s3, word)

RECURSIVE PlaceWords(_, _, _, _)
PlaceWords(s, words, i, call) ==
    IF i > Len(words) THEN s
    ELSE PlaceWords(PlaceWord(s, words[i], call), words, i + 1, call)

\* func (c *Cellbuf) AppendText(str string)
AppendText(s, str, tokIdx) ==
    LET s0 == [s EXCEPT !.log.appended = Append(@, [str |-> str, tok |-> tokIdx])]
        call == Len(s0.log.appended)
    IN IF Len(str) <= 0 THEN s0
       ELSE LET s1 == IF s0.doc.col < s0.doc.lmargin
                      THEN [s0 EXCEPT !.doc.col = s0.doc.lmargin]
                      ELSE s0
            IN PlaceWords(s1, ScanWords(str), 1, call)

(***************************************************************************)
(* Parser.HandleStartTag and Parser.HandleText.                            *)
(***************************************************************************)
\* an alt text after which the column is not reset
AfterAltNoReset(s) == [s EXCEPT !.doc.row = @ + 1]

\* case atom.Alt, after the AppendText: p.doc.row++; p.doc.col = p.doc.lmargin
AfterAlt(s) == [s EXCEPT !.doc.row = @ + 1, !.doc.col = s.doc.lmargin]

\* a src that is found in the manifest takes a row
SrcLookupTakesRow(s, val) ==
    IF \E i \in 1..Len(Manifest) : Manifest[i].HREF = val
    THEN [s EXCEPT !.doc.row = @ + 1]
    ELSE s

\* case atom.Src: the loop over p.items breaks at the item whose HREF is
\* the src and does nothing with it
SrcLookup(s, val) ==
    IF \E i \in 1..Len(Manifest) : Manifest[i].HREF = val THEN s ELSE s

\* the attribute loop of case atom.Img
RECURSIVE ImgAttrs(_, _, _, _)
ImgAttrs(s, attr, i, tokIdx) ==
    IF i > Len(attr) THEN s
    ELSE IF attr[i].Key = "alt"
         THEN ImgAttrs(AfterAlt(AppendText(s, AltPrefix \o attr[i].Val, tokIdx)),
                       attr, i + 1, tokIdx)
         ELSE IF attr[i].Key = "src"
              THEN ImgAttrs(SrcLookup(s, attr[i].Val), attr, i + 1, tokIdx)
              ELSE ImgAttrs(s, attr, i + 1, tokIdx)

\* a paragraph that starts left of the margin
ParagraphOutdent(s) == [s EXCEPT !.doc.row = @ + 2, !.doc.col = s.doc.lmargin - 2]

\* a paragraph without the indent
ParagraphNoIndent(s) == [s EXCEPT !.doc.row = @ + 2, !.doc.col = s.doc.lmargin]

\* case atom.P
Paragraph(s) == [s EXCEPT !.doc.row = @ + 2, !.doc.col = s.doc.lmargin + 2]

\* the block elements without the table row
BlockAtomsNoTr == {"h1", "h2", "h3", "h4", "h5", "h6", "title", "div"}

\* case atom.H1, atom.H2, atom.H3, atom.H4, atom.H5, atom.H6, atom.Title,
\* atom.Div, atom.Tr
BlockAtoms == {"h1", "h2", "h3", "h4", "h5", "h6", "title", "div", "tr"}

\* func (p *Parser) HandleStartTag(token html.Token)
HandleStartTag(s, token, tokIdx) ==
    CASE token.atom = "img" -> ImgAttrs(s, token.attr, 1, tokIdx)
      [] token.atom = "br" ->
           [s EXCEPT !.doc.row = @ + 1, !.doc.col = s.doc.lmargin]
      [] token.atom \in BlockAtoms ->
           [s EXCEPT !.doc.row = @ + 2, !.doc.col = s.doc.lmargin]
      [] token.atom = "p" -> Paragraph(s)
      [] token.atom = "hr" ->
           AppendText([s EXCEPT !.doc.row = @ + 1, !.doc.col = 0],
                      Repeat("-", s.doc.width), tokIdx)
      [] OTHER -> s

\* a filter that looks at the bottom of the stack
SkipTextBottom(tags) == Len(tags) > 0 /\ tags[1] = "style"

\* HandleText without the filter
SkipTextNever(tags) == FALSE

\* the filter of HandleText: the top of the stack is atom.Style
SkipText(tags) == Len(tags) > 0 /\ tags[Len(tags)] = "style"

(***************************************************************************)
(* Parser.Parse, one action per token type of the switch.                  *)
(***************************************************************************)
\* tokenizer := html.NewTokenizer(r); doc := Cellbuf{width: 80};
\* p := Parser{tokenizer: tokenizer, doc: doc, items: items, sb: sb}
NewParser(builder) ==
    /\ pc = "run"
    /\ tagStack = <<>>
    /\ doc = NewCellbuf
    /\ sb = builder
    /\ ret = NoRet
    /\ seen = <<>>
    /\ log = NewLog

\* one call of ParseText with an empty strings.Builder
Init ==
    /\ NewParser(<<>>)
    /\ streamLen = MaxTokens
    /\ cpc = "off"
    /\ overwriteSource = FALSE
    /\ fileIdx = 0
    /\ itemIdx = 0
    /\ csb = <<>>
    /\ epubs = {}
    /\ txt = <<>>
    /\ charCount = 0
    /\ written = <<>>
    /\ checked = <<>>
    /\ par = <<>>
    /\ heap = <<>>
    /\ MainOff

\* Parse returning whatever the tokenizer reported, io.EOF included
ParseReturnAll(e) == e

\* the end of the loop body of Parse: io.EOF returns nil, any other error
\* is returned
ParseReturn(e) == IF e = EOF THEN Nil ELSE e

\* an end tag that leaves the stack as it is
PopNone(tags) == tags

\* append(p.tagStack, token.DataAtom) and p.tagStack[:len(p.tagStack)-1]
Push(tags, a) == Append(tags, a)
Pop(tags) == SubSeq(tags, 1, Len(tags) - 1)

CanRead(tok) ==
    /\ pc = "run"
    /\ tok.type = "Error" \/ Len(seen) < streamLen

Cur == [doc |-> doc, log |-> log]

\* case html.ErrorToken: err = p.tokenizer.Err(); then the return of Parse
\* and of ParseText
ParseErrorToken(tok) ==
    /\ CanRead(tok)
    /\ tok.type = "Error"
    /\ seen' = Append(seen, tok)
    /\ pc' = "returned"
    /\ ret' = [sb |-> sb, err |-> ParseReturn(tok.err)]
    /\ UNCHANGED <<tagStack, doc, sb, log, streamLen>>
    /\ UNCHANGED <<cvars, qvars, mvars, dvars>>

\* case html.StartTagToken: push, fallthrough to HandleStartTag
ParseStartTag(tok) ==
    /\ CanRead(tok)
    /\ tok.type = "StartTag"
    /\ seen' = Append(seen, tok)
    /\ tagStack' = Push(tagStack, tok.atom)
    /\ LET s == HandleStartTag(Cur, tok, Len(seen) + 1)
       IN doc' = s.doc /\ log' = s.log
    /\ UNCHANGED <<pc, sb, ret, streamLen>>
    /\ UNCHANGED <<cvars, qvars, mvars, dvars>>

\* case html.SelfClosingTagToken: HandleStartTag
ParseSelfClosingTag(tok) ==
    /\ CanRead(tok)
    /\ tok.type = "SelfClosingTag"
    /\ seen' = Append(seen, tok)
    /\ LET s == HandleStartTag(Cur, tok, Len(seen) + 1)
       IN doc' = s.doc /\ log' = s.log
    /\ UNCHANGED <<pc, tagStack, sb, ret, streamLen>>
    /\ UNCHANGED <<cvars, qvars, mvars, dvars>>

\* case html.TextToken: HandleText
ParseTextToken(tok) ==
    /\ CanRead(tok)
    /\ tok.type = "Text"
    /\ seen' = Append(seen, tok)
    /\ IF SkipText(tagStack)
       THEN UNCHANGED <<doc, sb, log>>
       ELSE /\ LET s == AppendText([doc |-> Style(doc, tagStack), log |-> log],
                                   tok.data, Len(seen) + 1)
               IN doc' = s.doc /\ log' = s.log
            /\ sb' = sb \o tok.data
    /\ UNCHANGED <<pc, tagStack, ret, streamLen>>
    /\ UNCHANGED <<cvars, qvars, mvars, dvars>>

\* p.tagStack[:len(p.tagStack)-1] on an empty slice: slice bounds out of range
PopPanics(tags) == Len(tags) = 0

\* case html.EndTagToken: pop
ParseEndTag(tok) ==
    /\ CanRead(tok)
    /\ tok.type = "EndTag"
    /\ seen' = Append(seen, tok)
    /\ IF PopPanics(tagStack)
       THEN pc' = "panic" /\ UNCHANGED tagStack
       ELSE tagStack' = Pop(tagStack) /\ UNCHANGED pc
    /\ UNCHANGED <<doc, sb, ret, log, streamLen>>
    /\ UNCHANGED <<cvars, qvars, mvars, dvars>>

Next ==
    \/ \E tok \in ErrorTokens : ParseErrorToken(tok)
    \/ \E tok \in StartTokens : ParseStartTag(tok)
    \/ \E tok \in SelfClosingTokens : ParseSelfClosingTag(tok)
    \/ \E tok \in TextTokens : ParseTextToken(tok)
    \/ \E tok \in EndTokens : ParseEndTag(tok)

Spec == Init /\ [][Next]_vars

\* one call of ParseText on a section of nested, styled elements
InitStyle ==
    /\ NewParser(<<>>)
    /\ streamLen = MaxTokens + 1
    /\ cpc = "off"
    /\ overwriteSource = FALSE
    /\ fileIdx = 0
    /\ itemIdx = 0
    /\ csb = <<>>
    /\ epubs = {}
    /\ txt = <<>>
    /\ charCount = 0
    /\ written = <<>>
    /\ checked = <<>>
    /\ par = <<>>
    /\ heap = <<>>
    /\ MainOff

NextStyle ==
    \/ \E tok \in ErrorTokens : ParseErrorToken(tok)
    \/ \E tok \in StyleStartTokens : ParseStartTag(tok)
    \/ \E tok \in StyleSelfClosingTokens : ParseSelfClosingTag(tok)
    \/ \E tok \in StyleTextTokens : ParseTextToken(tok)
    \/ \E tok \in EndTokens : ParseEndTag(tok)

SpecStyle == InitStyle /\ [][NextStyle]_vars

\* one call of ParseText on a section of breaks, headings, divisions, table
\* rows, rules and images
NextLayout ==
    \/ \E tok \in ErrorTokens : ParseErrorToken(tok)
    \/ \E tok \in LayoutStartTokens : ParseStartTag(tok)
    \/ \E tok \in LayoutSelfClosingTokens : ParseSelfClosingTag(tok)
    \/ \E tok \in LayoutTextTokens : ParseTextToken(tok)
    \/ \E tok \in EndTokens : ParseEndTag(tok)

SpecLayout == Init /\ [][NextLayout]_vars

\* one call of ParseText on a section long enough for the first write to
\* fall beyond the first 1024 cells
InitGrow ==
    /\ NewParser(<<>>)
    /\ streamLen = MaxTokens + 6
    /\ cpc = "off"
    /\ overwriteSource = FALSE
    /\ fileIdx = 0
    /\ itemIdx = 0
    /\ csb = <<>>
    /\ epubs = {}
    /\ txt = <<>>
    /\ charCount = 0
    /\ written = <<>>
    /\ checked = <<>>
    /\ par = <<>>
    /\ heap = <<>>
    /\ MainOff

NextGrow ==
    \/ \E tok \in GrowErrorTokens : ParseErrorToken(tok)
    \/ \E tok \in GrowStartTokens : ParseStartTag(tok)
    \/ \E tok \in GrowSelfClosingTokens : ParseSelfClosingTag(tok)
    \/ \E tok \in GrowTextTokens : ParseTextToken(tok)
    \/ \E tok \in EndTokens : ParseEndTag(tok)

SpecGrow == InitGrow /\ [][NextGrow]_vars


(***************************************************************************)
(* Two calls of ParseText under way at once, their steps interleaved.      *)
(* Each call has the Parser that ParseText builds; the strings.Builder it  *)
(* received by value is a copy of the caller's, which refers to a backing  *)
(* array on the heap once something was written to it.                     *)
(***************************************************************************)
Calls == {"a", "b"}

ParTokens ==
    {StartTag("b", <<>>), TextTok(TxtHello), EndTag("p")} \cup ErrorTokens

\* var sb strings.Builder: no backing array yet (buf is nil, written 0)
ZeroBuilder == [buf |-> 0]

\* a Builder whose first write lands in the array allocated first
NewBufShared(h) == 1

\* the first WriteString on a zero Builder allocates a backing array
NewBuf(h) == Len(h) + 1

\* p.sb.WriteString(string(token.Data))
WriteString(b, h, data) ==
    IF b.buf = 0
    THEN LET addr == NewBuf(h)
         IN [sb |-> [buf |-> addr],
             heap |-> [i \in 1..(Len(h) + 1) |->
                          IF i = addr THEN data
                          ELSE IF i <= Len(h) THEN h[i] ELSE <<>>]]
    ELSE [sb |-> b, heap |-> [h EXCEPT ![b.buf] = @ \o data]]

\* sbret.String()
String(b, h) == IF b.buf = 0 THEN <<>> ELSE h[b.buf]

\* p := Parser{tokenizer: tokenizer, doc: doc, items: items, sb: sb}
NewCall(builder) ==
    [pc |-> "run", tagStack |-> <<>>, doc |-> NewCellbuf, sb |-> builder,
     ret |-> [sb |-> ZeroBuilder, err |-> "none"], seen |-> <<>>,
     log |-> NewLog]

\* one turn of the loop of Parse in the call p, reading tok
ParseStep(p, h, tok) ==
    LET q == [p EXCEPT !.seen = Append(@, tok)]
        n == Len(q.seen)
        cur == [doc |-> p.doc, log |-> p.log]
    IN CASE tok.type = "Error" ->
              [p |-> [q EXCEPT !.pc = "returned",
                               !.ret = [sb |-> p.sb,
                                        err |-> ParseReturn(tok.err)]],
               heap |-> h]
         [] tok.type = "StartTag" ->
              LET s == HandleStartTag(cur, tok, n)
              IN [p |-> [q EXCEPT !.tagStack = Push(@, tok.atom),
                                  !.doc = s.doc, !.log = s.log],
                  heap |-> h]
         [] tok.type = "SelfClosingTag" ->
              LET s == HandleStartTag(cur, tok, n)
              IN [p |-> [q EXCEPT !.doc = s.doc, !.log = s.log], heap |-> h]
         [] tok.type = "Text" ->
              IF SkipText(p.tagStack)
              THEN [p |-> q, heap |-> h]
              ELSE LET s == AppendText([doc |-> Style(p.doc, p.tagStack),
                                        log |-> p.log], tok.data, n)
                       w == WriteString(p.sb, h, tok.data)
                   IN [p |-> [q EXCEPT !.doc = s.doc, !.log = s.log,
                                       !.sb = w.sb],
                       heap |-> w.heap]
         [] tok.type = "EndTag" ->
              IF PopPanics(p.tagStack)
              THEN [p |-> [q EXCEPT !.pc = "panic"], heap |-> h]
              ELSE [p |-> [q EXCEPT !.tagStack = Pop(@)], heap |-> h]

\* the call of ParseText on the tokens toks, run alone from a zero Builder
RECURSIVE RunAlone(_, _)
RunAlone(toks, n) ==
    IF n = 0 THEN [p |-> NewCall(ZeroBuilder), heap |-> <<>>]
    ELSE LET before == RunAlone(toks, n - 1)
         IN ParseStep(before.p, before.heap, toks[n])

\* the text ParseText extracts from a section with the tokens toks
Extracted(toks) ==
    LET alone == RunAlone(toks, Len(toks))
    IN String(alone.p.sb, alone.heap)

(***************************************************************************)
(* ConvertEpubGo, one action per step of its two loops.                    *)
(***************************************************************************)
OldText == <<"o", "l", "d">>

\* what CheckRateLimit finds in an epub file
FileKinds == {"book", "empty", "throttled"}

\* a check that looks at the size of the file only
CheckRateLimitSizeOnly(kind) == kind = "empty"

\* func CheckRateLimit(inputdir string) bool
CheckRateLimit(kind) == kind = "empty" \/ kind = "throttled"

\* a chapter written as ParseText returned it
RemoveTabsNone(str) == str

\* strings.ReplaceAll(sbret.String(), "\t", "")
RemoveTabs(str) == SelectSeq(str, LAMBDA ch : ch # "\t")

\* no call of ParseText is under way: there is no Parser
Idle ==
    /\ pc = "idle"
    /\ tagStack = <<>>
    /\ doc = NewCellbuf
    /\ sb = <<>>
    /\ ret = NoRet
    /\ seen = <<>>
    /\ log = NewLog
    /\ streamLen = MaxTokens

\* a call of ConvertEpubGo on a directory that holds the files of Listing
InitConvert ==
    /\ Idle
    /\ cpc = "file"
    /\ overwriteSource \in BOOLEAN
    /\ fileIdx = 1
    /\ itemIdx = 0
    /\ csb = <<>>
    /\ epubs = 1..NumEpubs
    /\ txt = [b \in {0, 1} |-> OldText]
    /\ charCount = 0
    /\ written = <<>>
    /\ checked = <<>>
    /\ par = <<>>
    /\ heap = <<>>
    /\ MainOff

\* for _, file := range files, a file without the suffix ".epub"
ConvSkipFile ==
    /\ cpc = "file"
    /\ fileIdx <= Len(Listing)
    /\ Listing[fileIdx].ext # "epub"
    /\ fileIdx' = fileIdx + 1
    /\ UNCHANGED <<cpc, overwriteSource, itemIdx, csb, epubs, txt, charCount,
                   written, checked>>
    /\ UNCHANGED <<pvars, qvars, mvars, dvars>>

\* for _, file := range files, an epub: CheckRateLimit, epub.OpenReader,
\* var sb strings.Builder, os.Create(outputFilePath)
ConvOpenEpub(kind) ==
    /\ cpc = "file"
    /\ fileIdx <= Len(Listing)
    /\ Listing[fileIdx].ext = "epub"
    /\ IF CheckRateLimit(kind)
       THEN /\ cpc' = "exit"
            /\ UNCHANGED <<itemIdx, csb, txt, written>>
       ELSE /\ cpc' = "section"
            /\ itemIdx' = 1
            /\ csb' = <<>>
            /\ written' = <<>>
            /\ txt' = [b \in DOMAIN txt \cup {Listing[fileIdx].base} |->
                          IF b = Listing[fileIdx].base THEN <<>> ELSE txt[b]]
    /\ checked' = Append(checked, [base |-> Listing[fileIdx].base, kind |-> kind])
    /\ UNCHANGED <<overwriteSource, fileIdx, epubs, charCount>>
    /\ UNCHANGED <<pvars, qvars, mvars, dvars>>

\* for _, itemref := range book.Spine.Itemrefs: itemref.Open() and the call
\* ParseText(f, book.Manifest.Items, sb)
ConvParseSection ==
    /\ cpc = "section"
    /\ itemIdx <= NumSections
    /\ cpc' = "parsing"
    /\ pc' = "run"
    /\ tagStack' = <<>>
    /\ doc' = NewCellbuf
    /\ sb' = csb
    /\ ret' = NoRet
    /\ seen' = <<>>
    /\ log' = NewLog
    /\ UNCHANGED streamLen
    /\ UNCHANGED <<overwriteSource, fileIdx, itemIdx, csb, epubs, txt, charCount,
                   written, checked>>
    /\ UNCHANGED <<qvars, mvars, dvars>>

\* an error of ParseText that is ignored
SectionFailedNever(e) == FALSE

\* sbret, err := ParseText(...); if err != nil
SectionFailed(e) == e # Nil

\* ParseText returned: log.Fatal(err) on an error, else the chapter is
\* written to the output file and sb is reset
ConvSectionReturned ==
    /\ cpc = "parsing"
    /\ pc = "returned"
    /\ IF SectionFailed(ret.err)
       THEN /\ cpc' = "exit"
            /\ UNCHANGED <<itemIdx, csb, txt, charCount, written>>
       ELSE LET chapterStr == RemoveTabs(ret.sb)
                base == Listing[fileIdx].base
            IN /\ charCount' = charCount + Len(chapterStr)
               /\ txt' = [txt EXCEPT ![base] = @ \o chapterStr]
               /\ csb' = <<>>
               /\ itemIdx' = itemIdx + 1
               /\ cpc' = "section"
               /\ written' = Append(written, Extracted(seen))
    /\ UNCHANGED <<overwriteSource, fileIdx, epubs, checked>>
    /\ UNCHANGED <<qvars, mvars, dvars>>
    /\ IF SectionFailed(ret.err)
       THEN UNCHANGED pvars
       ELSE /\ pc' = "idle"
            /\ tagStack' = <<>>
            /\ doc' = NewCellbuf
            /\ sb' = <<>>
            /\ ret' = NoRet
            /\ seen' = <<>>
            /\ log' = NewLog
            /\ UNCHANGED streamLen

\* the panic of Parse is not recovered: the process ends
ConvSectionPanicked ==
    /\ cpc = "parsing"
    /\ pc = "panic"
    /\ cpc' = "exit"
    /\ UNCHANGED <<overwriteSource, fileIdx, itemIdx, csb, epubs, txt, charCount,
                   written, checked>>
    /\ UNCHANGED <<pvars, qvars, mvars, dvars>>

\* a conversion that removes the source whatever the flag
RemoveSourceAlways(files, base, overwrite) == files \ {base}

\* if overwriteSource { os.Remove(filepath) }
RemoveSource(files, base, overwrite) ==
    IF overwrite THEN files \ {base} ELSE files

\* after the loop over the spine: if overwriteSource { os.Remove(filepath) },
\* rc.Close()
ConvCloseEpub ==
    /\ cpc = "section"
    /\ itemIdx > NumSections
    /\ epubs' = RemoveSource(epubs, Listing[fileIdx].base, overwriteSource)
    /\ fileIdx' = fileIdx + 1
    /\ cpc' = "file"
    /\ UNCHANGED <<overwriteSource, itemIdx, csb, txt, charCount, written,
                   checked>>
    /\ UNCHANGED <<pvars, qvars, mvars, dvars>>

\* after the loop over files ConvertEpubGo returns
ConvReturn ==
    /\ cpc = "file"
    /\ fileIdx > Len(Listing)
    /\ cpc' = "done"
    /\ UNCHANGED <<overwriteSource, fileIdx, itemIdx, csb, epubs, txt, charCount,
                   written, checked>>
    /\ UNCHANGED <<pvars, qvars, mvars, dvars>>

NextConvert ==
    \/ ConvSkipFile
    \/ \E kind \in FileKinds : ConvOpenEpub(kind)
    \/ ConvParseSection
    \/ \E tok \in ErrorTokens : ParseErrorToken(tok)
    \/ \E tok \in ConvStartTokens : ParseStartTag(tok)
    \/ \E tok \in ConvSelfClosingTokens : ParseSelfClosingTag(tok)
    \/ \E tok \in ConvTextTokens : ParseTextToken(tok)
    \/ \E tok \in ConvEndTokens : ParseEndTag(tok)
    \/ ConvSectionReturned
    \/ ConvSectionPanicked
    \/ ConvCloseEpub
    \/ ConvReturn

SpecConvert == InitConvert /\ [][NextConvert]_vars

(***************************************************************************)
(* Properties.  The operators below read the histories seen and log.       *)
(***************************************************************************)
\* the token read by the step, when the step reads one
Reads(type) ==
    /\ pc = "run"
    /\ Len(seen') = Len(seen) + 1
    /\ seen'[Len(seen')].type = type

NumOf(type) == Cardinality({i \in 1..Len(seen) : seen[i].type = type})

\* the element stack after the first n tokens, computed from the tokens alone
RECURSIVE StackAfter(_)
StackAfter(n) ==
    IF n = 0 THEN <<>>
    ELSE LET before == StackAfter(n - 1)
         IN CASE seen[n].type = "StartTag" -> Append(before, seen[n].atom)
              [] seen[n].type = "EndTag" /\ Len(before) > 0 ->
                   SubSeq(before, 1, Len(before) - 1)
              [] OTHER -> before

\* the data of the Text tokens among the first n tokens that are not inside
\* a style element, in order
RECURSIVE TextOf(_)
TextOf(n) ==
    IF n = 0 THEN <<>>
    ELSE LET encl == StackAfter(n - 1)
         IN IF /\ seen[n].type = "Text"
               /\ ~(Len(encl) > 0 /\ encl[Len(encl)] = "style")
            THEN TextOf(n - 1) \o seen[n].data
            ELSE TextOf(n - 1)

\* the words placed by the AppendText calls of token i, in order
PlacedBy(i) == SelectSeq(log.placed, LAMBDA w : log.appended[w.call].tok = i)

IsParagraphTag(tok) == tok.type \in {"StartTag", "SelfClosingTag"} /\ tok.atom = "p"

IsImgTag(tok) == tok.type \in {"StartTag", "SelfClosingTag"} /\ tok.atom = "img"

----------------------------------------------------------------------------
\* C1: when the walk reads an EndTag while the element stack is empty, the
\* stack is not popped, the walk stops with an error returned to the caller
\* and the text accumulated before the end tag is returned unchanged.
C1_EndTagOnEmptyStackReturnsError ==
    [][(Reads("EndTag") /\ Len(tagStack) = 0)
          => /\ tagStack' = tagStack
             /\ pc' = "returned"
             /\ ret'.err \notin {Nil, "none"}
             /\ ret'.sb = sb]_vars

----------------------------------------------------------------------------
\* C2: the text ParseText returns is the in-order concatenation of the data
\* of every Text token that was not discarded (the top of the stack was not
\* a style element); tags, alt text and rules add nothing to it and it does
\* not depend on the grid.
C2_ReturnedTextIsTextTokens ==
    /\ pc = "returned" => ret.sb = TextOf(Len(seen))
    /\ pc \in {"run", "panic"} => sb = TextOf(Len(seen))

\* <p>Hello world</p> has been walked and "Hello world" returned
C2_Witness ==
    /\ pc = "returned"
    /\ seen = <<StartTag("p", <<>>), TextTok(TxtHello), EndTag("p"), ErrorTok(EOF)>>
    /\ ret.sb = TxtHello
    /\ Len(log.writes) > 0

----------------------------------------------------------------------------
----------------------------------------------------------------------------
\* C4: on an Error token the walk ends; end-of-stream makes Parse return no
\* error and ParseText return all accumulated text, any other error is
\* returned to the caller; no further token is processed.
C4_ErrorTokenEndsWalk ==
    [][/\ Reads("Error") =>
            /\ pc' = "returned"
            /\ ret'.sb = sb
            /\ ret'.err = IF seen'[Len(seen')].err = EOF
                          THEN Nil ELSE seen'[Len(seen')].err
       /\ pc = "returned" => (seen' = seen /\ ret' = ret)]_vars

\* a walk that ended on a tokenizer error after text had been accumulated
C4_Witness ==
    /\ pc = "returned"
    /\ seen[Len(seen)].err = ErrUnexpected
    /\ ret.err = ErrUnexpected
    /\ ret.sb # <<>>

----------------------------------------------------------------------------
\* C5: after any prefix of the token stream that the walk has processed the
\* depth of the element stack is the number of StartTag tokens minus the
\* number of EndTag tokens; so the stack is empty when a walk over balanced
\* tags ends successfully.
C5_StackDepth ==
    /\ pc \in {"run", "returned"} =>
          Len(tagStack) = NumOf("StartTag") - NumOf("EndTag")
    /\ (pc = "returned" /\ ret.err = Nil /\ NumOf("StartTag") = NumOf("EndTag"))
          => tagStack = <<>>

\* a successful walk over balanced tags with a self-closing tag inside
C5_Witness ==
    /\ pc = "returned"
    /\ ret.err = Nil
    /\ NumOf("StartTag") = 1
    /\ NumOf("EndTag") = 1
    /\ NumOf("SelfClosingTag") = 1

----------------------------------------------------------------------------
\* C6: when no word handed to AppendText has more characters than the width,
\* every character written to the grid is written at a column c with
\* 0 <= c < width.
C6_WritesInsideWidth ==
    (\A k \in 1..Len(log.placed) : Len(log.placed[k].word) <= doc.width)
       => \A i \in 1..Len(log.writes) :
             0 <= log.writes[i].x /\ log.writes[i].x < doc.width

\* words no longer than the width, one of them wrapped to a new row, and a
\* character in the last column
C6_Witness ==
    /\ Len(log.placed) >= 2
    /\ \A k \in 1..Len(log.placed) : Len(log.placed[k].word) <= doc.width
    /\ \E k \in 1..Len(log.placed) :
          log.placed[k].word = TxtNear /\ log.placed[k].col = doc.lmargin
    /\ \E i \in 1..Len(log.writes) : log.writes[i].x = doc.width - 1

----------------------------------------------------------------------------
\* C7: a word with more characters than the width is placed with its first
\* character at the left margin, all its characters on one row, and no
\* other word on that row.
C7_LongWordOwnRow ==
    \A k \in 1..Len(log.placed) :
       Len(log.placed[k].word) > doc.width =>
          /\ log.placed[k].col = doc.lmargin
          /\ \A i \in 1..Len(log.writes) :
                log.writes[i].k = k => log.writes[i].y = log.placed[k].row
          /\ Cardinality({i \in 1..Len(log.writes) : log.writes[i].k = k})
                = Len(log.placed[k].word)
          /\ \A j \in 1..Len(log.placed) :
                j # k => log.placed[j].row # log.placed[k].row

\* a word longer than the width with a word placed before it and one after
C7_Witness ==
    \E k \in 2..(Len(log.placed) - 1) :
       /\ Len(log.placed[k].word) > doc.width
       /\ Len(log.placed[k - 1].word) <= doc.width
       /\ Len(log.placed[k + 1].word) <= doc.width

----------------------------------------------------------------------------
\* the first word placed by a Text token that directly follows a p tag
FirstAfterParagraph(i) == PlacedBy(i + 1)[1]

ParagraphThenWord(i) ==
    /\ i + 1 <= Len(seen)
    /\ IsParagraphTag(seen[i])
    /\ seen[i + 1].type = "Text"
    /\ Len(PlacedBy(i + 1)) > 0

\* C8 as claimed: after a paragraph start tag the first character of the
\* text that directly follows is placed at column left margin + 2, whatever
\* the word.
C8_IndentAlways ==
    \A i \in 1..Len(seen) :
       ParagraphThenWord(i) => FirstAfterParagraph(i).col = doc.lmargin + 2

\* C8 as amended: after a paragraph start tag the first word of the text
\* that directly follows is placed at column left margin + 2 when it has at
\* most width - (left margin + 2) characters; a longer first word is wrapped
\* and placed at the left margin.
C8_IndentUnlessWrapped ==
    \A i \in 1..Len(seen) :
       ParagraphThenWord(i) =>
          FirstAfterParagraph(i).col =
             IF Len(FirstAfterParagraph(i).word) <= doc.width - (doc.lmargin + 2)
             THEN doc.lmargin + 2
             ELSE doc.lmargin

\* <p>Hello world: "Hello" starts at column 2
C8_Witness ==
    \E i \in 1..Len(seen) :
       /\ ParagraphThenWord(i)
       /\ seen[i + 1].data = TxtHello
       /\ FirstAfterParagraph(i).col = 2
       /\ \E j \in 1..Len(log.writes) : log.writes[j].x = 2 /\ log.writes[j].k = 1

----------------------------------------------------------------------------
\* C9: a word placed on the same row after a previously placed word is
\* preceded by one empty cell: its column is one past the column after the
\* last character of the previous word.
C9_WordsSeparated ==
    \A k \in 1..(Len(log.placed) - 1) :
       log.placed[k + 1].row = log.placed[k].row =>
          log.placed[k + 1].col
             = log.placed[k].col + Len(log.placed[k].word) + 1

----------------------------------------------------------------------------
\* the words of "Alt text: A cat"
AltCatWords ==
    <<<<"A", "l", "t">>, <<"t", "e", "x", "t", ":">>, <<"A">>, <<"c", "a", "t">>>>

\* C10: on an image tag with an alt attribute of value v the Layout Surface
\* receives exactly "Alt text: " followed by v through AppendText, then the
\* row is advanced by one and the column reset to the left margin; the
\* Accumulated Text Output is not changed.
C10_AltText ==
    [][((Reads("StartTag") \/ Reads("SelfClosingTag")) /\ IsImgTag(seen'[Len(seen')]))
          => /\ log'.appended =
                   Append(log.appended,
                          [str |-> AltPrefix \o AltCat, tok |-> Len(seen')])
             /\ Len(log'.placed) = Len(log.placed) + 4
             /\ \A j \in 1..4 :
                   log'.placed[Len(log.placed) + j].word = AltCatWords[j]
             /\ doc'.row = log'.placed[Len(log'.placed)].row + 1
             /\ doc'.col = doc'.lmargin
             /\ sb' = sb]_vars

\* the alt text of an image was placed after text on the same row
C10_Witness ==
    /\ Len(seen) >= 2
    /\ IsImgTag(seen[Len(seen)])
    /\ seen[Len(seen) - 1].type = "Text"
    /\ log.appended[Len(log.appended)].str = AltPrefix \o AltCat
    /\ sb # <<>>
    /\ doc.col = doc.lmargin

\* two calls of ParseText, each with a copy of a zero strings.Builder
InitPar ==
    /\ Idle
    /\ cpc = "off"
    /\ overwriteSource = FALSE
    /\ fileIdx = 0
    /\ itemIdx = 0
    /\ csb = <<>>
    /\ epubs = {}
    /\ txt = <<>>
    /\ charCount = 0
    /\ written = <<>>
    /\ checked = <<>>
    /\ par = [c \in Calls |-> NewCall(ZeroBuilder)]
    /\ heap = <<>>
    /\ MainOff

\* the call c takes its next turn
ParParse(c, tok) ==
    /\ par[c].pc = "run"
    /\ tok.type = "Error" \/ Len(par[c].seen) < streamLen
    /\ LET r == ParseStep(par[c], heap, tok)
       IN /\ par' = [par EXCEPT ![c] = r.p]
          /\ heap' = r.heap
    /\ UNCHANGED <<pvars, cvars, mvars, dvars>>

NextPar == \E c \in Calls, tok \in ParTokens : ParParse(c, tok)

SpecPar == InitPar /\ [][NextPar]_vars

(***************************************************************************)
(* downloadBook on the data directory.  File names and titles are          *)
(* sequences of characters.                                                *)
(***************************************************************************)
MaxDownloads == 3

\* the titles of the book pages: words with a blank, the same title written
\* without the blank, and a title of symbols only
Titles == {<<"A", " ", "b">>, <<"A", "b">>, <<"!", "?">>}

BookLink == "/books/download/1"

\* the body of the response to client.Get
Body == <<"b", "o", "o", "k">>

TxtFormat == <<"t", "x", "t">>
EpubFormat == <<"e", "p", "u", "b">>

\* SUPPORTEDFORMATS := [2]string{"epub", "txt"}
SUPPORTEDFORMATS == <<EpubFormat, TxtFormat>>

\* the characters of the titles that the class \w matches
WordChars == {"A", "b"}

\* func createBookFileName(title string, textFormat string) string
createBookFileName(title, textFormat) ==
    SelectSeq(title, LAMBDA ch : ch \in WordChars) \o <<".">> \o textFormat

\* if fileName == ""
TitleIsEmpty(fileName) == fileName = <<>>

\* os.Create(filePath): the file is created, or truncated if it exists
Create(dir, name) ==
    [n \in DOMAIN dir \cup {name} |-> IF n = name THEN <<>> ELSE dir[n]]

\* the loop over SUPPORTEDFORMATS: os.Stat(potentialFilePath) finds a file,
\* in the directory as it is after os.Create
AlreadyExists(dir, title) ==
    \E i \in 1..Len(SUPPORTEDFORMATS) :
        createBookFileName(title, SUPPORTEDFORMATS[i]) \in DOMAIN dir

\* io.Copy(file, resp.Body)
Copy(dir, name, body) == [dir EXCEPT ![name] = @ \o body]

\* func downloadBook(title, bookLink, dataDir, textFormat) on the directory
\* dir: the directory, the requests and the log after the call
downloadBook(d, title, bookLink, textFormat) ==
    LET fileName == createBookFileName(title, textFormat)
        call == [title |-> title, format |-> textFormat]
    IN IF TitleIsEmpty(fileName)
       THEN [d EXCEPT !.dlog = Append(@, [call |-> call, msg |-> "Skipping: all symbols"])]
       ELSE LET created == Create(d.dataDir, fileName)
            IN IF AlreadyExists(created, title)
               THEN [d EXCEPT !.dataDir = created,
                              !.dlog = Append(@, [call |-> call,
                                                  msg |-> "Skipping: already exists"])]
               ELSE [dataDir |-> Copy(created, fileName, Body),
                     requests |-> Append(d.requests, bookLink),
                     dlog |-> Append(d.dlog, [call |-> call, msg |-> "Downloaded"])]

OldBook == <<"o", "l", "d">>

\* what the data directory holds before the first call
Directories ==
    {<<>>,
     [n \in {createBookFileName(<<"A", "b">>, TxtFormat)} |-> OldBook],
     [n \in {createBookFileName(<<"A", "b">>, EpubFormat)} |-> OldBook]}

\* calls of downloadBook, one after the other, on a data directory
InitDownload ==
    /\ Idle
    /\ cpc = "off"
    /\ overwriteSource = FALSE
    /\ fileIdx = 0
    /\ itemIdx = 0
    /\ csb = <<>>
    /\ epubs = {}
    /\ txt = <<>>
    /\ charCount = 0
    /\ written = <<>>
    /\ checked = <<>>
    /\ par = <<>>
    /\ heap = <<>>
    /\ mpc = "off"
    /\ flags = NoFlags
    /\ loopI = 0
    /\ tasks = <<>>
    /\ wg = 0
    /\ dataDir \in Directories
    /\ requests = <<>>
    /\ dlog = <<>>

DownloadBook(title, textFormat) ==
    /\ Len(dlog) < MaxDownloads
    /\ LET d == downloadBook([dataDir |-> dataDir, requests |-> requests,
                              dlog |-> dlog], title, BookLink, textFormat)
       IN /\ dataDir' = d.dataDir
          /\ requests' = d.requests
          /\ dlog' = d.dlog
    /\ UNCHANGED <<pvars, cvars, qvars, mvars>>

NextDownload ==
    \E title \in Titles, i \in 1..Len(SUPPORTEDFORMATS) :
        DownloadBook(title, SUPPORTEDFORMATS[i])

SpecDownload == InitDownload /\ [][NextDownload]_vars

(***************************************************************************)
(* main: one goroutine per list page, wg.Wait(), then ConvertEpubGo.       *)
(***************************************************************************)
MaxPages == 2
MaxPageItems == 2

\* the values of the flags -pageitems, -pages, -format
Flags ==
    [pageitems : 1..MaxPageItems, pages : 0..MaxPages,
     format : {"txt", "epub", "all"}]

\* the titles of the books a list page links to
ListPages == {<<>>, <<<<"A", "b">>>>}

\* a goroutine that reads the loop variable when it runs, after the loop
PageIdAfterLoop(i) == flags.pageitems * flags.pages

\* go func(pageId int) { ... }(i): the argument is evaluated by the go
\* statement
PageId(i) == i

\* bookCollector.OnHTML: the book page offers the formats asked for
RECURSIVE ScrapeBooks(_, _, _, _)
ScrapeBooks(d, page, k, textFormat) ==
    IF k > Len(page) THEN d
    ELSE LET d1 == IF textFormat \in {"txt", "all"}
                   THEN downloadBook(d, page[k], BookLink, TxtFormat)
                   ELSE d
             d2 == IF textFormat \in {"epub", "all"}
                   THEN downloadBook(d1, page[k], BookLink, EpubFormat)
                   ELSE d1
         IN ScrapeBooks(d2, page, k + 1, textFormat)

\* flag.Parse() and totalBooks := *itemsPerPagePtr * *pagesPtr
InitMain ==
    /\ Idle
    /\ cpc = "off"
    /\ overwriteSource = FALSE
    /\ fileIdx = 0
    /\ itemIdx = 0
    /\ csb = <<>>
    /\ epubs = {}
    /\ txt = <<>>
    /\ charCount = 0
    /\ written = <<>>
    /\ checked = <<>>
    /\ par = <<>>
    /\ heap = <<>>
    /\ mpc = "loop"
    /\ flags \in Flags
    /\ loopI = 0
    /\ tasks = <<>>
    /\ wg = 0
    /\ dataDir = <<>>
    /\ requests = <<>>
    /\ dlog = <<>>

totalBooks == flags.pageitems * flags.pages

\* for i := 0; i < totalBooks; i = i + *itemsPerPagePtr: wg.Add(1) and the
\* go statement
MainSpawn ==
    /\ mpc = "loop"
    /\ loopI < totalBooks
    /\ wg' = wg + 1
    /\ tasks' = Append(tasks, [pageId |-> PageId(loopI), state |-> "running"])
    /\ loopI' = loopI + flags.pageitems
    /\ UNCHANGED <<mpc, flags>>
    /\ UNCHANGED <<pvars, cvars, qvars, dvars>>

\* the loop ends
MainLoopEnd ==
    /\ mpc = "loop"
    /\ loopI >= totalBooks
    /\ mpc' = "wait"
    /\ UNCHANGED <<flags, loopI, tasks, wg>>
    /\ UNCHANGED <<pvars, cvars, qvars, dvars>>

\* the goroutine t: scrapeBookList on its list page, then wg.Done()
TaskScrape(t, page) ==
    /\ t \in 1..Len(tasks)
    /\ tasks[t].state = "running"
    /\ LET d == ScrapeBooks([dataDir |-> dataDir, requests |-> requests,
                             dlog |-> dlog], page, 1, flags.format)
       IN /\ dataDir' = d.dataDir
          /\ requests' = d.requests
          /\ dlog' = d.dlog
    /\ tasks' = [tasks EXCEPT ![t].state = "returned"]
    /\ wg' = wg - 1
    /\ UNCHANGED <<mpc, flags, loopI>>
    /\ UNCHANGED <<pvars, cvars, qvars>>

\* wg.Wait() returns when the counter is zero
MainWait ==
    /\ mpc = "wait"
    /\ wg = 0
    /\ mpc' = "convert"
    /\ UNCHANGED <<flags, loopI, tasks, wg>>
    /\ UNCHANGED <<pvars, cvars, qvars, dvars>>

\* if *textFormatPtr == "epub" || *textFormatPtr == "all": the call of
\* ConvertEpubGo, which goes on as SpecConvert describes
MainConvert ==
    /\ mpc = "convert"
    /\ flags.format = "epub" \/ flags.format = "all"
    /\ mpc' = "done"
    /\ cpc' = "file"
    /\ fileIdx' = 1
    /\ UNCHANGED <<overwriteSource, itemIdx, csb, epubs, txt, charCount, written,
                   checked>>
    /\ UNCHANGED <<flags, loopI, tasks, wg>>
    /\ UNCHANGED <<pvars, qvars, dvars>>

\* any other format: main returns
MainReturn ==
    /\ mpc = "convert"
    /\ ~(flags.format = "epub" \/ flags.format = "all")
    /\ mpc' = "done"
    /\ UNCHANGED <<flags, loopI, tasks, wg>>
    /\ UNCHANGED <<pvars, cvars, qvars, dvars>>

NextMain ==
    \/ MainSpawn
    \/ MainLoopEnd
    \/ \E t \in 1..MaxPages, page \in ListPages : TaskScrape(t, page)
    \/ MainWait
    \/ MainConvert
    \/ MainReturn

SpecMain == InitMain /\ [][NextMain]_vars

----------------------------------------------------------------------------
\* the top of the element stack
Top(tags) == IF Len(tags) > 0 THEN tags[Len(tags)] ELSE ""

\* C11: a Text token whose enclosing element (top of the element stack) is
\* a style element is discarded: the Accumulated Text Output, the grid
\* cells, the cursor and the current attribute are left unchanged.
C11_StyleTextDiscarded ==
    [][(Reads("Text") /\ Top(tagStack) = "style")
          => /\ sb' = sb
             /\ doc'.cells = doc.cells
             /\ doc'.row = doc.row
             /\ doc'.col = doc.col
             /\ doc'.fg = doc.fg
             /\ log'.writes = log.writes]_vars

\* text inside a style element that is nested in a heading was read after
\* bold text had been placed
C11_Witness ==
    /\ Len(seen) = 4
    /\ seen[1] = StartTag("b", <<>>)
    /\ seen[2] = TextTok(TxtHello)
    /\ seen[3] = StartTag("style", <<>>)
    /\ seen[4] = TextTok(TxtHello)
    /\ sb = TxtHello
    /\ doc.fg = Attr.AttrBold
    /\ Len(log.placed) = 2

\* C12: a Text token whose enclosing element (top of the element stack) is
\* a script element is discarded like style text: nothing is appended to
\* the Accumulated Text Output and no grid cell is written.
C12_ScriptTextDiscarded ==
    [][(Reads("Text") /\ Top(tagStack) = "script")
          => /\ sb' = sb
             /\ doc'.cells = doc.cells
             /\ log'.writes = log.writes]_vars

\* bit k of an attribute
Bit(n, k) == (n \div (2 ^ k)) % 2

AttrBits == 0..9

InStack(tags, tag) == \E i \in 1..Len(tags) : tags[i] = tag

\* C13: Style resolves the attribute additively over every entry of the
\* element stack, starting from the default attribute and independent of
\* the attribute stored before: a bit is set in the resolved attribute
\* exactly when the attribute of some stack entry has it; for a stack
\* holding h1 and b both the heading-1 colour and the bold flag are in it.
\* Style changes the stored foreground attribute only: the stack is kept,
\* and a text without words, for which Style is all that acts on the
\* surface, leaves cursor and cells as they were.
C13_StyleAdditive ==
    [][(Reads("Text") /\ ~SkipText(tagStack))
          => /\ \A k \in AttrBits :
                   Bit(doc'.fg, k) = 1
                     <=> \E i \in 1..Len(tagStack) :
                             Bit(StyleOf(tagStack[i]), k) = 1
             /\ doc'.fg < 2 ^ 10
             /\ (InStack(tagStack, "h1") /\ InStack(tagStack, "b"))
                   => doc'.fg = Attr.ColorMagenta + Attr.AttrBold
             /\ tagStack' = tagStack
             /\ doc'.bg = doc.bg
             /\ seen'[Len(seen')].data = TxtBlank
                   => doc' = [doc EXCEPT !.fg = doc'.fg]]_vars

\* <h1><b> and a text: the attribute is heading-1 colour plus bold, after
\* an earlier text outside both had stored the default attribute
C13_Witness ==
    /\ Len(seen) = 4
    /\ seen[1] = TextTok(TxtHello)
    /\ tagStack = <<"h1", "b">>
    /\ seen[4] = TextTok(TxtBlank)
    /\ doc.fg = 518
    /\ Len(log.writes) = 10

\* C14: every cell written to the grid, by any operation of the walk,
\* carries the foreground attribute that Style resolves from the element
\* stack as it is at the moment of that write.
C14_WritesCarryResolvedStyle ==
    [][(pc = "run" /\ Len(seen') = Len(seen) + 1)
          => \A j \in (Len(log.writes) + 1)..Len(log'.writes) :
                log'.writes[j].fg = Style(doc, tagStack').fg]_vars

\* what the caller of the call c has: the text and error returned, or the
\* panic
Outcome(p, h) ==
    [pc |-> p.pc, err |-> p.ret.err,
     text |-> IF p.pc = "returned" THEN String(p.ret.sb, h) ELSE <<>>]

\* C15: two calls of ParseText share no mutable state: whatever the order
\* in which their steps interleave, each call has at every moment the
\* element stack, the Layout Surface and the text it has when run alone on
\* its own tokens, returns the text and error it returns alone, and a step
\* of one call leaves the other call and its text as they were.
C15_CallsIsolated ==
    [][/\ \A c \in Calls :
             LET alone == RunAlone(par'[c].seen, Len(par'[c].seen))
             IN /\ Outcome(par'[c], heap') = Outcome(alone.p, alone.heap)
                /\ par'[c].tagStack = alone.p.tagStack
                /\ par'[c].doc = alone.p.doc
                /\ String(par'[c].sb, heap') = String(alone.p.sb, alone.heap)
       /\ \E c \in Calls :
             \A d \in Calls \ {c} :
                /\ par'[d] = par[d]
                /\ String(par'[d].sb, heap') = String(par[d].sb, heap)]_vars

\* both calls returned their own text after their writes had alternated
C15_Witness ==
    /\ par["a"].pc = "returned"
    /\ par["b"].pc = "returned"
    /\ par["a"].seen = <<TextTok(TxtHello), TextTok(TxtHello), ErrorTok(EOF)>>
    /\ par["b"].seen = <<StartTag("b", <<>>), TextTok(TxtHello), ErrorTok(EOF)>>
    /\ par["a"].ret.sb.buf = 2
    /\ par["b"].ret.sb.buf = 1
    /\ String(par["a"].ret.sb, heap) = TxtHello \o TxtHello
    /\ String(par["b"].ret.sb, heap) = TxtHello

\* str with every character but the tab, in order
RECURSIVE WithoutTabs(_)
WithoutTabs(str) ==
    IF Len(str) = 0 THEN <<>>
    ELSE IF Head(str) = "\t" THEN WithoutTabs(Tail(str))
    ELSE <<Head(str)>> \o WithoutTabs(Tail(str))

\* the chapters of the first n sections, one after the other
RECURSIVE Chapters(_, _)
Chapters(secs, n) ==
    IF n = 0 THEN <<>>
    ELSE Chapters(secs, n - 1) \o WithoutTabs(secs[n])

\* C16: while an epub is converted, the Accumulated Text Output of a call of
\* ParseText holds the text of the section under way alone (it is empty
\* when the section starts), and the .txt file of the document holds the
\* concatenation, in spine order, of the text extracted from each section
\* finished so far with the tabs removed, each section exactly once.
C16_TxtIsSectionsInOrder ==
    /\ (cpc = "parsing" /\ pc = "run") => sb = Extracted(seen)
    /\ (cpc = "parsing" /\ seen = <<>>) => sb = <<>>
    /\ cpc \in {"section", "parsing"}
          => /\ Len(written) = itemIdx - 1
             /\ txt[Listing[fileIdx].base] = Chapters(written, Len(written))

\* both sections of the second epub were written, each with text in it
C16_Witness ==
    /\ cpc = "section"
    /\ fileIdx = 3
    /\ Len(written) = 2
    /\ \A i \in 1..2 : written[i] = TxtTab
    /\ txt[Listing[fileIdx].base] = <<"a", "a">>

\* the step reads a StartTag or a SelfClosingTag of one of the elements
ReadsTagOf(atoms) ==
    /\ Reads("StartTag") \/ Reads("SelfClosingTag")
    /\ seen'[Len(seen')].atom \in atoms

\* C17: on a StartTag or SelfClosingTag, br advances the row by exactly one
\* and h1..h6, div and tr advance it by exactly two; in each case the
\* column is reset to the left margin, no grid cell is written and the
\* Accumulated Text Output is unchanged.
C17_BreakAndBlockRows ==
    [][/\ ReadsTagOf({"br"})
            => doc' = [doc EXCEPT !.row = doc.row + 1, !.col = doc.lmargin]
       /\ ReadsTagOf({"h1", "h2", "h3", "h4", "h5", "h6", "div", "tr"})
            => doc' = [doc EXCEPT !.row = doc.row + 2, !.col = doc.lmargin]
       /\ ReadsTagOf({"br", "h1", "h2", "h3", "h4", "h5", "h6", "div", "tr"})
            => /\ log'.writes = log.writes
               /\ sb' = sb
               /\ pc' = "run"]_vars

\* a text, then a br and a tr: three rows down, back at the left margin
C17_Witness ==
    /\ Len(seen) = 3
    /\ seen[1] = TextTok(TxtHello)
    /\ seen[2] = SelfClosingTag("br", <<>>)
    /\ seen[3] = StartTag("tr", <<>>)
    /\ doc.row = 3
    /\ doc.col = 0
    /\ Len(log.writes) = 10
    /\ sb = TxtHello

\* the writes the step added
NewWrites == SubSeq(log'.writes, Len(log.writes) + 1, Len(log'.writes))

\* C18: on an hr element the row advances by one, the column is reset to 0
\* and a run of exactly width rule characters is written to the columns
\* 0..width-1 of that single new row; no earlier row is written.
C18_RuleFillsOneRow ==
    [][ReadsTagOf({"hr"})
          => /\ doc'.row = doc.row + 1
             /\ Len(NewWrites) = doc.width
             /\ \A j \in 1..Len(NewWrites) :
                   /\ NewWrites[j].x = j - 1
                   /\ NewWrites[j].y = doc.row + 1
                   /\ doc'.cells.at[(doc.row + 1) * doc.width + j - 1].Ch = "-"
             /\ \A i \in DOMAIN doc.cells.at :
                   i < (doc.row + 1) * doc.width
                      => doc'.cells.at[i] = doc.cells.at[i]
             /\ sb' = sb]_vars

\* a rule after a text: the text in row 0, the rule in all of row 1
C18_Witness ==
    /\ Len(seen) = 2
    /\ seen[1] = TextTok(TxtHello)
    /\ seen[2] = SelfClosingTag("hr", <<>>)
    /\ doc.row = 1
    /\ doc.col = Width
    /\ Len(log.writes) = 10 + Width
    /\ log.writes[11].idx = Width
    /\ log.writes[10 + Width].idx = 2 * Width - 1

HasAlt(tok) == \E i \in 1..Len(tok.attr) : tok.attr[i].Key = "alt"

\* C19: an img element without an alt attribute is no error and produces no
\* text: the grid cells, the cursor and the Accumulated Text Output are
\* unchanged by it, with or without a src attribute, whether or not the src
\* is the HREF of a manifest item.
C19_ImgWithoutAlt ==
    [][(ReadsTagOf({"img"}) /\ ~HasAlt(seen'[Len(seen')]))
          => /\ doc' = doc
             /\ sb' = sb
             /\ log' = log
             /\ pc' = "run"
             /\ ret' = ret]_vars

\* after a text, an img whose src is in the manifest and an img whose src
\* is not: the surface is as the text left it
C19_Witness ==
    /\ Len(seen) = 3
    /\ seen[1] = TextTok(TxtHello)
    /\ seen[2] = StartTag("img", SrcAttr)
    /\ seen[3] = SelfClosingTag("img", SrcOtherAttr)
    /\ doc.row = 0
    /\ doc.col = 10
    /\ Len(log.writes) = 10
    /\ sb = TxtHello

\* C20: at every write of SetCell the flat index row*width+column is below
\* the capacity of the grid at that write; the capacity is always a
\* multiple of 1024 cells and never decreases.
C20_WritesBelowCapacity ==
    /\ doc.cells.n % 1024 = 0
    /\ \A i \in DOMAIN doc.cells.at : i < doc.cells.n
    /\ \A j \in 1..Len(log.writes) :
          LET w == log.writes[j]
          IN /\ w.idx = w.y * doc.width + w.x
             /\ w.idx < w.cap
             /\ w.cap % 1024 = 0
             /\ w.cap <= doc.cells.n
             /\ j > 1 => log.writes[j - 1].cap <= w.cap

\* seven div elements and a text: the first write of the walk is to cell
\* 1120, for which the empty grid grew by two steps
C20_Witness ==
    /\ Len(seen) = 8
    /\ seen[8] = TextTok(TxtHello)
    /\ Len(log.writes) = 10
    /\ log.writes[1].idx = 1120
    /\ log.writes[1].cap = 2 * 1024
    /\ doc.cells.n = 2 * 1024

\* C21: in every state of the walk the cursor column is at least the left
\* margin and the row is at least 0; no step of the walk changes the left
\* margin, and no step lowers the row.
C21_CursorBounds ==
    [][pc = "run"
          => /\ doc.col >= doc.lmargin
             /\ doc.row >= 0
             /\ doc'.col >= doc'.lmargin
             /\ doc'.row >= 0
             /\ doc'.lmargin = doc.lmargin
             /\ doc'.row >= doc.row]_vars

\* a rule and a text: the text wrapped to the left margin of the third row
C21_Witness ==
    /\ Len(seen) = 2
    /\ seen[1] = SelfClosingTag("hr", <<>>)
    /\ seen[2] = TextTok(TxtHello)
    /\ doc.row = 2
    /\ doc.col = 10
    /\ doc.lmargin = 0

\* the epub files whose conversion is complete: the loop over files went
\* past them
Converted == {b \in 1..NumEpubs : fileIdx > b + 1}

Downloads == Len(dlog') = Len(dlog) + 1

LastCall == dlog'[Len(dlog')].call

\* the title without the characters the sanitizer removes
Sanitized(title) == SelectSeq(title, LAMBDA ch : ch \notin {" ", "!", "?"})

\* the names under which a book of the title may be in the directory
NamesOf(title) ==
    {Sanitized(title) \o <<".">> \o f : f \in {TxtFormat, EpubFormat}}

\* C23: downloadBook fetches the book and stores its content under
\* <sanitized title>.<format> whenever no file of that title is in the data
\* directory at the time of the call, in either format; it skips the
\* download only when such a file was there before the call.
C23_DownloadsWhenAbsent ==
    [][(Downloads /\ Sanitized(LastCall.title) # <<>>)
          => LET name == Sanitized(LastCall.title) \o <<".">> \o LastCall.format
             IN IF NamesOf(LastCall.title) \cap DOMAIN dataDir = {}
                THEN /\ requests' = Append(requests, BookLink)
                     /\ name \in DOMAIN dataDir'
                     /\ dataDir'[name] = Body
                ELSE requests' = requests]_vars

\* C24: when every character of the title is removed by the sanitizer,
\* downloadBook skips the book: no file is created and no HTTP request is
\* made.
C24_SymbolTitleSkipped ==
    [][(Downloads /\ Sanitized(LastCall.title) = <<>>)
          => /\ DOMAIN dataDir' = DOMAIN dataDir
             /\ requests' = requests]_vars

\* C25: when downloadBook skips a book because a file of that title is
\* already there, that file has the same content after the call as before.
C25_SkipKeepsFile ==
    [][(/\ Downloads
        /\ requests' = requests
        /\ NamesOf(LastCall.title) \cap DOMAIN dataDir # {})
          => \A n \in NamesOf(LastCall.title) \cap DOMAIN dataDir :
                /\ n \in DOMAIN dataDir'
                /\ dataDir'[n] = dataDir[n]]_vars

\* C26: within one section no write to the grid goes to a flat cell index
\* row*width+column that an earlier write of the section wrote: successive
\* writes have strictly increasing flat indices, for every token sequence,
\* words longer than the width included.
C26_WritesInReadingOrder ==
    \A j \in 2..Len(log.writes) : log.writes[j - 1].idx < log.writes[j].idx

\* C27: for positive pageitems and non-negative pages main starts exactly
\* one scrapeBookList task per page, the task of page k receiving the
\* offset (k-1)*pageitems as its own; ConvertEpubGo is started only after
\* every one of these tasks has returned, and only when the format is epub
\* or all.
C27_OneTaskPerPageThenConvert ==
    /\ Len(tasks) <= flags.pages
    /\ \A t \in 1..Len(tasks) : tasks[t].pageId = (t - 1) * flags.pageitems
    /\ mpc \in {"wait", "convert", "done"} => Len(tasks) = flags.pages
    /\ cpc # "off"
          => /\ Len(tasks) = flags.pages
             /\ \A t \in 1..Len(tasks) : tasks[t].state = "returned"
             /\ flags.format \in {"epub", "all"}

\* two pages of two items: the tasks got the offsets 0 and 2, both have
\* returned and ConvertEpubGo was called
C27_Witness ==
    /\ flags.pages = 2
    /\ flags.pageitems = 2
    /\ flags.format = "all"
    /\ Len(tasks) = 2
    /\ tasks[1].pageId = 0
    /\ tasks[2].pageId = 2
    /\ \A t \in 1..2 : tasks[t].state = "returned"
    /\ Len(dlog) = 4
    /\ cpc = "file"

\* the last epub file the loop came to was found empty or throttled
RateLimited(chk) ==
    Len(chk) > 0 /\ chk[Len(chk)].kind \in {"empty", "throttled"}

\* C28: ConvertEpubGo checks every .epub file for rate limiting before it
\* parses it; when the check is positive the file is not parsed, no .txt is
\* created for it, it is not deleted, and no later file is processed.
C28_RateLimitStops ==
    [][/\ ~RateLimited(checked)
       /\ cpc' \in {"section", "parsing"}
             => /\ Len(checked') > 0
                /\ checked'[Len(checked')] =
                      [base |-> Listing[fileIdx'].base, kind |-> "book"]
       /\ RateLimited(checked')
             => LET b == checked'[Len(checked')].base
                IN /\ cpc' = "exit"
                   /\ pc' = "idle"
                   /\ txt' = txt
                   /\ b \in DOMAIN txt' => txt'[b] = OldText
                   /\ epubs' = epubs
                   /\ b \in epubs'
                   /\ fileIdx' = fileIdx
                   /\ Listing[fileIdx'].base = b]_vars

\* the first epub was converted, the second holds the throttling message:
\* it is still there and has no .txt
C28_Witness ==
    /\ Len(checked) = 2
    /\ checked[1] = [base |-> 1, kind |-> "book"]
    /\ checked[2] = [base |-> 2, kind |-> "throttled"]
    /\ cpc = "exit"
    /\ 2 \in epubs
    /\ 2 \notin DOMAIN txt
    /\ Len(txt[1]) > 0

=============================================================================
